---- MODULE Spec2Model ----
(***************************************************************************)
(* A model of the date/time core of the `whenever` extension module:       *)
(*   src/src/date.rs          Date: check_date, is_leap, days_in_month, new *)
(*   src/src/utc_datetime.rs  UTCDateTime: Instant, __new__, __richcmp__,   *)
(*                            __reduce__, unpickle, the accessors           *)
(*                                                                         *)
(* Machine integers keep their width.  TLC's integers are 32-bit, so an    *)
(* unsigned 64-bit value is a little-endian sequence of eight bytes and    *)
(* the arithmetic on it is done byte by byte.                              *)
(***************************************************************************)
EXTENDS Integers, Sequences, FiniteSets, TLC

VARIABLES
    pc,      \* position of the call under study: "call" before it, "done" after it
    input,   \* the arguments of the call
    output,  \* what the call returned
    heap,    \* the host runtime's objects: slot -> object record, or Free
    ret,     \* what the last operation on the heap returned
    exc      \* the host runtime's pending exception, or NoExc

vars == <<pc, input, output, heap, ret, exc>>

(***************************************************************************)
(* Fixed-width unsigned integers as little-endian byte sequences.          *)
(***************************************************************************)
Base == 2^8
U64Bytes == 64 \div 8
U32Bytes == 32 \div 8
U16Bytes == 16 \div 8
U8Bytes == 8 \div 8

RECURSIVE ToLimbs(_, _)
\* The k low bytes of the natural number n.
ToLimbs(n, k) ==
    IF k = 0 THEN <<>> ELSE <<n % Base>> \o ToLimbs(n \div Base, k - 1)

RECURSIVE AllZero(_)
AllZero(x) == IF x = <<>> THEN TRUE ELSE Head(x) = 0 /\ AllZero(Tail(x))

\* Bytes k+1.. of x (the part that a cast to k bytes drops).
HighPart(x, k) == IF Len(x) <= k THEN <<>> ELSE SubSeq(x, k + 1, Len(x))

\* `x as uK`: keep the k low bytes, zero-extend when x is shorter.
Cast(x, k) ==
    IF Len(x) >= k THEN SubSeq(x, 1, k)
    ELSE x \o [i \in 1..(k - Len(x)) |-> 0]

\* x holds a value below 2^24, which TLC's integers can hold.
IsSmall(x) == AllZero(HighPart(x, 3))

RECURSIVE LimbsVal(_)
\* The number a byte sequence stands for (only for IsSmall sequences).
LimbsVal(x) ==
    IF x = <<>> \/ AllZero(x) THEN 0 ELSE Head(x) + Base * LimbsVal(Tail(x))

RECURSIVE MulAdd(_, _, _)
\* The exact value x * m + c, of as many bytes as it needs (at least Len(x)).
MulAdd(x, m, c) ==
    IF x = <<>>
    THEN IF c = 0 THEN <<>> ELSE <<c % Base>> \o MulAdd(<<>>, m, c \div Base)
    ELSE LET t == Head(x) * m + c
         IN  <<t % Base>> \o MulAdd(Tail(x), m, t \div Base)

RECURSIVE DivMod(_, _)
\* Quotient (same width as x) and remainder of x by the small divisor d.
DivMod(x, d) ==
    IF x = <<>> THEN [q |-> <<>>, r |-> 0]
    ELSE LET hi == DivMod(Tail(x), d)
             t  == hi.r * Base + Head(x)
         IN  [q |-> <<t \div d>> \o hi.q, r |-> t % d]

RECURSIVE LimbsLess(_, _)
\* x < y as numbers, for byte sequences of the same width.
LimbsLess(x, y) ==
    IF x = <<>> THEN FALSE
    ELSE IF Tail(x) # Tail(y) THEN LimbsLess(Tail(x), Tail(y))
    ELSE Head(x) < Head(y)

\* Two's complement negation at the width of x: the image of -x.
Negate(x) == Cast(MulAdd([i \in 1..Len(x) |-> Base - 1 - x[i]], 1, 1), Len(x))

U64(n) == ToLimbs(n, U64Bytes)

(***************************************************************************)
(* src/src/date.rs                                                         *)
(***************************************************************************)
MAX_YEAR == 9999
MIN_YEAR == 1
DAYS_IN_MONTH == <<31, 28, 31, 30, 31, 30, 31, 31, 30, 31, 30, 31>>

is_leap_div4(year) == year % 4 = 0

is_leap(year) == (year % 4 = 0 /\ year % 100 # 0) \/ year % 400 = 0

days_in_month(year, month) ==
    IF month = 2 /\ is_leap(year) THEN 29 ELSE DAYS_IN_MONTH[month]

Ok(v) == [tag |-> "Ok", val |-> v]
Err(e) == [tag |-> "Err", err |-> e]

\* `x as u16`-style narrowing, the bug try_from guards against.
truncating_from(x, k) == Ok(LimbsVal(Cast(x, k)))

\* u16::try_from / u8::try_from on a u64: fails unless the value fits k bytes.
try_from(x, k) ==
    IF AllZero(HighPart(x, k)) THEN Ok(LimbsVal(Cast(x, k))) ELSE Err("TryFromIntError")

check_date(year, month, day) ==
    LET y == try_from(year, U16Bytes)
        m == try_from(month, U8Bytes)
        d == try_from(day, U8Bytes)
    IN  IF y.tag = "Ok" THEN
            IF m.tag = "Ok" THEN
                IF d.tag = "Ok" THEN
                    IF y.val < MIN_YEAR \/ y.val > MAX_YEAR THEN Err("InvalidYear")
                    ELSE IF m.val < 1 \/ m.val > 12 THEN Err("InvalidMonth")
                    ELSE IF d.val < 1 \/ d.val > days_in_month(y.val, m.val)
                         THEN Err("InvalidDay")
                    ELSE Ok([year |-> y.val, month |-> m.val, day |-> d.val])
                ELSE Err("InvalidDay")
            ELSE Err("InvalidMonth")
        ELSE Err("InvalidYear")

(***************************************************************************)
(* crate::date and crate::time as src/src/utc_datetime.rs uses them.  Their *)
(* code is not among the sources; they are modelled from the specification *)
(* (sections 4.1, 4.2 and 4.3).                                            *)
(***************************************************************************)
\* date::in_range on C longs: the checks in the order year, month, day.
date_in_range(year, month, day) ==
    IF year < MIN_YEAR \/ year > MAX_YEAR THEN Err("InvalidYear")
    ELSE IF month < 1 \/ month > 12 THEN Err("InvalidMonth")
    ELSE IF day < 1 \/ day > days_in_month(year, month) THEN Err("InvalidDay")
    ELSE Ok([year |-> year, month |-> month, day |-> day])

MaxNanos == 999999999

\* time::in_range on C longs: four independent bounds, one generic failure.
time_in_range(hour, minute, second, nanos) ==
    IF /\ 0 <= hour /\ hour <= 23
       /\ 0 <= minute /\ minute <= 59
       /\ 0 <= second /\ second <= 59
       /\ 0 <= nanos /\ nanos <= MaxNanos
    THEN [tag |-> "Some",
          val |-> [hour |-> hour, minute |-> minute, second |-> second, nanos |-> nanos]]
    ELSE [tag |-> "None"]

\* Days of a 400-year, 100-year, 4-year and 1-year cycle, and the number of
\* days from March 1st of year 0 to 0001-01-01.
DaysPer400Y == 146097
DaysPer100Y == 36524
DaysPer4Y == 1461
MarchShift == 306

\* date::ymd_to_ord with a February of fixed length: no leap-cycle terms.
ymd_to_ord_noleap(year, month, day) ==
    LET y   == IF month <= 2 THEN year - 1 ELSE year
        mp  == IF month > 2 THEN month - 3 ELSE month + 9
        doy == (153 * mp + 2) \div 5 + day - 1
    IN  y * 365 + doy - MarchShift

\* date::ymd_to_ord: the day count of a date, 0 for 0001-01-01.  The year is
\* taken to start on March 1st, the days are counted by 400/100/4/1-year
\* cycles, and the count is shifted back.
ymd_to_ord(year, month, day) ==
    LET y   == IF month <= 2 THEN year - 1 ELSE year
        era == y \div 400
        yoe == y - era * 400
        mp  == IF month > 2 THEN month - 3 ELSE month + 9
        doy == (153 * mp + 2) \div 5 + day - 1
        doe == yoe * 365 + yoe \div 4 - yoe \div 100 + doy
    IN  era * DaysPer400Y + doe - MarchShift

\* The ordinal of 9999-12-31, the last one date::ord_to_ymd is specified for.
MaxOrdinal == ymd_to_ord(MAX_YEAR, 12, 31)
Unspecified == "unspecified"

\* date::ord_to_ymd on a u32 ordinal: the inverse of ymd_to_ord.  Outside the
\* supported range the specification leaves the result open.
ord_to_ymd(ord) ==
    IF ~IsSmall(ord) \/ LimbsVal(ord) > MaxOrdinal
    THEN [year |-> Unspecified, month |-> Unspecified, day |-> Unspecified]
    ELSE LET z   == LimbsVal(ord) + MarchShift
             era == z \div DaysPer400Y
             doe == z - era * DaysPer400Y
             yoe == (doe - doe \div (DaysPer4Y - 1) + doe \div DaysPer100Y
                         - doe \div (DaysPer400Y - 1)) \div 365
             doy == doe - (365 * yoe + yoe \div 4 - yoe \div 100)
             mp  == (5 * doy + 2) \div 153
             d   == doy - (153 * mp + 2) \div 5 + 1
             m   == IF mp < 10 THEN mp + 3 ELSE mp - 9
         IN  [year |-> yoe + era * 400 + (IF m <= 2 THEN 1 ELSE 0),
              month |-> m, day |-> d]

(***************************************************************************)
(* src/src/utc_datetime.rs: Instant                                        *)
(***************************************************************************)
SecsPerDay == 86400
SecsPerHour == 3600
SecsPerMinute == 60

\* Arithmetic in a field narrower than Instant.secs: 32 bits.
WrapU32(x) == Cast(Cast(x, U32Bytes), U64Bytes)

\* Arithmetic in the u64 field Instant.secs wraps at 2^64.
WrapU64(x) == Cast(x, U64Bytes)

\* A cast of the day count to 16 bits instead of 32.
AsU16(x) == Cast(Cast(x, U16Bytes), U32Bytes)

\* `(self.secs / 86400) as u32`: the cast of the day count.
AsU32(x) == Cast(x, U32Bytes)

\* hour taken from secs % 3600 instead of secs % 86400.
hour_of_mod3600(secs) == (DivMod(secs, SecsPerHour).r \div SecsPerHour) % Base

\* `((self.secs % 86400) / 3600) as u8`
hour_of(secs) == (DivMod(secs, SecsPerDay).r \div SecsPerHour) % Base

\* `((self.secs % 3600) / 60) as u8`
minute_of(secs) == (DivMod(secs, SecsPerHour).r \div SecsPerMinute) % Base

\* `(self.secs % 60) as u8`
second_of(secs) == DivMod(secs, SecsPerMinute).r % Base

\* `(self.secs / 86400) as u32`
ord_of(secs) == AsU32(DivMod(secs, SecsPerDay).q)

to_datetime(ins) ==
    LET ymd == ord_to_ymd(ord_of(ins.secs))
    IN  [date |-> [year |-> ymd.year, month |-> ymd.month, day |-> ymd.day],
         time |-> [hour |-> hour_of(ins.secs),
                   minute |-> minute_of(ins.secs),
                   second |-> second_of(ins.secs),
                   nanos |-> ins.nanos]]

from_datetime(dt) ==
    LET ord  == ymd_to_ord(dt.date.year, dt.date.month, dt.date.day)
        days == WrapU64(MulAdd(U64(ord), SecsPerDay, 0))
        h    == WrapU64(MulAdd(days, 1, dt.time.hour * SecsPerHour))
        hm   == WrapU64(MulAdd(h, 1, dt.time.minute * SecsPerMinute))
        secs == WrapU64(MulAdd(hm, 1, dt.time.second))
    IN  [secs |-> secs, nanos |-> dt.time.nanos]

\* An ordering that compares the nanoseconds before the seconds.
instant_lt_nanos_first(a, b) ==
    a.nanos < b.nanos \/ (a.nanos = b.nanos /\ LimbsLess(a.secs, b.secs))

\* The derived PartialOrd/Ord of Instant: by secs, then by nanos.
instant_lt(a, b) ==
    LimbsLess(a.secs, b.secs) \/ (a.secs = b.secs /\ a.nanos < b.nanos)

\* The derived PartialEq/Eq of Instant.
instant_eq(a, b) == a.secs = b.secs /\ a.nanos = b.nanos

Ops == {"Py_LT", "Py_LE", "Py_EQ", "Py_NE", "Py_GT", "Py_GE"}

\* The match on op in __richcmp__.
instant_cmp(a, b, op) ==
    CASE op = "Py_LT" -> instant_lt(a, b)
      [] op = "Py_LE" -> ~instant_lt(b, a)
      [] op = "Py_EQ" -> instant_eq(a, b)
      [] op = "Py_NE" -> ~instant_eq(a, b)
      [] op = "Py_GT" -> instant_lt(b, a)
      [] op = "Py_GE" -> ~instant_lt(a, b)

(***************************************************************************)
(* The host runtime's heap.  An object is owned by the caller it was       *)
(* returned to, or by nobody when the function that allocated it dropped   *)
(* the pointer.                                                            *)
(***************************************************************************)
MaxObjs == 2
Slots == 1..MaxObjs
Free == [type |-> "free"]
NoExc == "none"
Null == 0
Idle == "idle"

FreeSlots == {s \in Slots : heap[s] = Free}
Live == Cardinality(Slots \ FreeSlots)
\* tp_alloc: a fresh slot, or Null when memory is exhausted.
Alloc ==
    IF FreeSlots = {} THEN Null
    ELSE CHOOSE s \in FreeSlots : \A t \in FreeSlots : s <= t

EmptyHeap == [s \in Slots |-> Free]

\* The body of the Date constructor `new` after argument parsing.
DateNewCall(year, month, day) ==
    LET slf == Alloc
        r == check_date(year, month, day)
    IN  IF slf = Null
        THEN /\ ret' = Null
             /\ exc' = <<"MemoryError", "">>
             /\ UNCHANGED heap
        ELSE IF r.tag = "Ok"
        THEN /\ heap' = [heap EXCEPT ![slf] =
                            [type |-> "Date", date |-> r.val, owner |-> "caller"]]
             /\ ret' = slf
             /\ UNCHANGED exc
        ELSE /\ heap' = [heap EXCEPT ![slf] =
                            [type |-> "Date", date |-> "uninit", owner |-> "nobody"]]
             /\ ret' = Null
             /\ exc' = <<"ValueError", r.err>>

\* The date and time checks of __new__ with the time failure swallowed:
\* midnight stands in for an invalid time.
new_checked_default_time(year, month, day, hour, minute, second, nanos) ==
    LET d == date_in_range(year, month, day)
        t == time_in_range(hour, minute, second, nanos)
    IN  IF d.tag = "Err" THEN Err(<<"ValueError", d.err>>)
        ELSE Ok(from_datetime(
                 [date |-> d.val,
                  time |-> IF t.tag = "Some" THEN t.val
                           ELSE [hour |-> 0, minute |-> 0, second |-> 0, nanos |-> 0]]))

\* The argument of new_unchecked in __new__: the date is checked first, then
\* the time, and the Instant is built from the two.
new_checked(year, month, day, hour, minute, second, nanos) ==
    LET d == date_in_range(year, month, day)
        t == time_in_range(hour, minute, second, nanos)
    IN  IF d.tag = "Err" THEN Err(<<"ValueError", d.err>>)
        ELSE IF t.tag = "None" THEN Err(<<"ValueError", "Invalid time">>)
        ELSE Ok(from_datetime([date |-> d.val, time |-> t.val]))

new_unchecked(type, i) ==
    LET slf == Alloc
    IN  IF slf = Null
        THEN /\ ret' = Null
             /\ exc' = <<"MemoryError", "">>
             /\ UNCHANGED heap
        ELSE /\ heap' = [heap EXCEPT ![slf] =
                            [type |-> type, instant |-> i, owner |-> "caller"]]
             /\ ret' = slf
             /\ UNCHANGED exc

\* The body of the UTCDateTime constructor __new__ after argument parsing.
UTCNewCall(year, month, day, hour, minute, second, nanos) ==
    LET i == new_checked(year, month, day, hour, minute, second, nanos)
    IN  IF i.tag = "Err"
        THEN /\ ret' = Null
             /\ exc' = i.err
             /\ UNCHANGED heap
        ELSE new_unchecked("UTCDateTime", i.val)

(***************************************************************************)
(* check_date over unsigned 64-bit triples.                                *)
(***************************************************************************)
MaxMonthInput == 14
MaxDayInput == 33
YearWindow == 2

\* 2^16 + 2021, and the images of -1 and of -(2^16 - 2021) under the "K"
\* argument format, which reinterprets a negative number as a large unsigned one.
WideYears == {U64(65535), U64(65536), U64(65536 + 2021), Negate(U64(1)),
              Negate(U64(65536 - 2021))}
WideMonths == {U64(255), U64(256), U64(256 + 2), U64(65536 + 2), Negate(U64(1)),
               Negate(U64(256 - 2))}
WideDays == {U64(255), U64(256), U64(256 + 28), U64(65536 + 1), Negate(U64(1)),
             Negate(U64(256 - 28))}

PivotYears == {1, 4, 100, 400, 1900, 2000, 2020, 2021, 2100, 9999}
YearInputs ==
    {U64(0), U64(10000)} \cup WideYears
    \cup {U64(p + k) : p \in PivotYears, k \in 0..YearWindow}
MonthInputs == {U64(n) : n \in 0..MaxMonthInput} \cup WideMonths
DayInputs == {U64(n) : n \in 0..MaxDayInput} \cup WideDays

InitCheckDate ==
    /\ pc = "call"
    /\ input \in [year : YearInputs, month : MonthInputs, day : DayInputs]
    /\ output = Idle
    /\ heap = EmptyHeap
    /\ ret = Idle
    /\ exc = NoExc

\* One call of the Date constructor on the triple drawn.
DateNew ==
    /\ pc = "call"
    /\ DateNewCall(input.year, input.month, input.day)
    /\ output' = IF Alloc = Null THEN Idle
                  ELSE check_date(input.year, input.month, input.day)
    /\ pc' = "done"
    /\ UNCHANGED input

NextCheckDate == DateNew

SpecCheckDate == InitCheckDate /\ [][NextCheckDate]_vars

(***************************************************************************)
(* One valid civil date-time through Instant::from_datetime and back.      *)
(***************************************************************************)
YearsAround ==
    {y \in {p + k : p \in PivotYears, k \in (0 - YearWindow)..YearWindow} :
        MIN_YEAR <= y /\ y <= MAX_YEAR}

ValidDates(years) ==
    {d \in [year : years, month : 1..12, day : 1..31] :
        d.day <= days_in_month(d.year, d.month)}

EdgeTimes ==
    {[hour |-> 0, minute |-> 0, second |-> 0, nanos |-> 0],
     [hour |-> 23, minute |-> 59, second |-> 59, nanos |-> MaxNanos]}
EdgeDates ==
    {[year |-> MIN_YEAR, month |-> 1, day |-> 1],
     [year |-> 2000, month |-> 2, day |-> 29],
     [year |-> MAX_YEAR, month |-> 12, day |-> 31]}
ManyTimes ==
    [hour : 0..23,
     minute : {m \in 0..59 : m % 7 = 0 \/ m = 59},
     second : {0, 1, 30, 59},
     nanos : {0, 1, MaxNanos}]

InitInstant ==
    /\ pc = "call"
    /\ input \in [date : ValidDates(YearsAround), time : EdgeTimes]
                 \cup [date : EdgeDates, time : ManyTimes]
    /\ output = Idle
    /\ heap = EmptyHeap
    /\ ret = Idle
    /\ exc = NoExc

\* Instant::from_datetime on the validated date-time.
FromDatetime ==
    /\ pc = "call"
    /\ output' = [instant |-> from_datetime(input),
                  ord |-> ymd_to_ord(input.date.year, input.date.month, input.date.day)]
    /\ pc' = "composed"
    /\ UNCHANGED <<input, heap, ret, exc>>

\* Instant::to_datetime on the instant just composed.
ToDatetime ==
    /\ pc = "composed"
    /\ output' = [instant |-> output.instant, ord |-> output.ord,
                  back |-> to_datetime(output.instant)]
    /\ pc' = "done"
    /\ UNCHANGED <<input, heap, ret, exc>>

NextInstant == FromDatetime \/ ToDatetime

SpecInstant == InitInstant /\ [][NextInstant]_vars

(***************************************************************************)
(* Two valid civil date-times, composed and compared.                      *)
(***************************************************************************)
PairWindow == 1
PairPivots == {1, 1900, 2000, 9998}
PairYears == {p + k : p \in PairPivots, k \in 0..PairWindow} \cap MIN_YEAR..MAX_YEAR
PairDates ==
    {d \in ValidDates(PairYears) :
        <<d.month, d.day>> \in {<<1, 1>>, <<1, 31>>, <<2, 1>>, <<2, 28>>, <<2, 29>>,
                                <<3, 1>>, <<12, 31>>}}
PairTimes ==
    {[hour |-> 0, minute |-> 0, second |-> 0, nanos |-> 0],
     [hour |-> 0, minute |-> 0, second |-> 0, nanos |-> MaxNanos],
     [hour |-> 0, minute |-> 0, second |-> 59, nanos |-> 0],
     [hour |-> 0, minute |-> 59, second |-> 0, nanos |-> 1],
     [hour |-> 23, minute |-> 0, second |-> 0, nanos |-> 0],
     [hour |-> 23, minute |-> 59, second |-> 59, nanos |-> MaxNanos]}
PairInputs == [date : PairDates, time : PairTimes]

InitPair ==
    /\ pc = "call"
    /\ input \in [a : PairInputs, b : PairInputs]
    /\ output = Idle
    /\ heap = EmptyHeap
    /\ ret = Idle
    /\ exc = NoExc

\* Instant::from_datetime on both; the ordinals it computed are kept.
ComposePair ==
    /\ pc = "call"
    /\ output' = [a |-> from_datetime(input.a),
                  b |-> from_datetime(input.b),
                  ord_a |-> ymd_to_ord(input.a.date.year, input.a.date.month,
                                       input.a.date.day),
                  ord_b |-> ymd_to_ord(input.b.date.year, input.b.date.month,
                                       input.b.date.day)]
    /\ pc' = "composed"
    /\ UNCHANGED <<input, heap, ret, exc>>

\* The comparison of __richcmp__ on the two instants, for every op.
ComparePair ==
    /\ pc = "composed"
    /\ ret' = [op \in Ops |-> instant_cmp(output.a, output.b, op)]
    /\ pc' = "done"
    /\ UNCHANGED <<input, output, heap, exc>>

NextPair == ComposePair \/ ComparePair

SpecPair == InitPair /\ [][NextPair]_vars

(***************************************************************************)
(* One call of the UTCDateTime constructor on seven C longs.               *)
(***************************************************************************)
MaxHourInput == 25
MaxMinuteInput == 61
MaxSecondInput == 61
NanosOver == 1

HourInputs == (0 - 1)..MaxHourInput
MinuteInputs == {0 - 1, 0, 1, 30} \cup 58..MaxMinuteInput
SecondInputs == {0 - 1, 0, 30} \cup 58..MaxSecondInput
NanosInputs == {0 - 1, 0, 1} \cup (MaxNanos - 1)..(MaxNanos + NanosOver)
NewDates ==
    {[year |-> 2000, month |-> 2, day |-> 29],
     [year |-> MAX_YEAR, month |-> 12, day |-> 31],
     [year |-> 1900, month |-> 2, day |-> 29]}

InitNew ==
    /\ pc = "call"
    /\ input \in [date : NewDates, hour : HourInputs, minute : MinuteInputs,
                  second : SecondInputs, nanos : NanosInputs]
    /\ output = Idle
    /\ heap = EmptyHeap
    /\ ret = Idle
    /\ exc = NoExc

UTCNew ==
    /\ pc = "call"
    /\ UTCNewCall(input.date.year, input.date.month, input.date.day,
                  input.hour, input.minute, input.second, input.nanos)
    /\ pc' = "done"
    /\ UNCHANGED <<input, output>>

NextNew == UTCNew

SpecNew == InitNew /\ [][NextNew]_vars

(***************************************************************************)
(* The objects at run time: constructors, __reduce__, unpickle,            *)
(* __richcmp__ and deallocation, in any order.                             *)
(***************************************************************************)
\* A Python integer: sign and magnitude.
PyLong_FromLongLong(bits) ==
    IF bits[U64Bytes] >= Base \div 2
    THEN [neg |-> TRUE, mag |-> Negate(bits)]
    ELSE [neg |-> FALSE, mag |-> bits]

\* try_get_int!: the C long of a Python integer, as its 64 bits.
try_get_int(n) == IF n.neg THEN Negate(n.mag) ELSE n.mag

\* The pair __reduce__ packs: `ins.secs as c_longlong` and `ins.nanos as c_long`.
reduce_args(ins) ==
    <<PyLong_FromLongLong(ins.secs), PyLong_FromLongLong(U64(ins.nanos))>>

\* ModuleState.naive_datetime_type, the type unpickle instantiates.
naive_datetime_type == "NaiveDateTime"

\* The result of __richcmp__ for the objects slf and other.
richcmp(slf, other, op) ==
    IF other.type = slf.type
    THEN instant_cmp(slf.instant, other.instant, op)
    ELSE "NotImplemented"

RunYears == {2000, 10000}
RunDays == {28, 29}
RunHours == {23, 24}
RunNanos == {0, MaxNanos}
RunDateYears == {U64(2021), U64(0)}

InitRun ==
    /\ pc = "run"
    /\ input = [op |-> "none"]
    /\ output = Idle
    /\ heap = EmptyHeap
    /\ ret = Idle
    /\ exc = NoExc

RunDateNew ==
    \E y \in RunDateYears :
        /\ DateNewCall(y, U64(1), U64(1))
        /\ input' = [op |-> "Date", year |-> y]
        /\ UNCHANGED <<pc, output>>

RunUTCNew ==
    \E y \in RunYears, d \in RunDays, h \in RunHours, n \in RunNanos :
        /\ UTCNewCall(y, 2, d, h, 59, 59, n)
        /\ input' = [op |-> "UTCDateTime", year |-> y, day |-> d, hour |-> h, nanos |-> n]
        /\ UNCHANGED <<pc, output>>

\* __reduce__ on a UTCDateTime object.
Reduce ==
    \E s \in Slots :
        /\ heap[s].type = "UTCDateTime"
        /\ ret' = <<"unpickle_utc_datetime", reduce_args(heap[s].instant)>>
        /\ input' = [op |-> "__reduce__", slf |-> s]
        /\ UNCHANGED <<pc, output, heap, exc>>

\* unpickle on the arguments __reduce__ returned, or on the first of them only.
Unpickle ==
    /\ input.op = "__reduce__"
    /\ \E nargs \in {1, 2} :
        /\ input' = [op |-> "unpickle", nargs |-> nargs, of |-> input.slf]
        /\ IF nargs # 2
           THEN /\ ret' = Null
                /\ exc' = <<"TypeError", "Invalid pickle data">>
                /\ UNCHANGED heap
           ELSE new_unchecked(naive_datetime_type,
                    [secs |-> try_get_int(ret[2][1]),
                     nanos |-> LimbsVal(Cast(try_get_int(ret[2][2]), U32Bytes))])
    /\ UNCHANGED <<pc, output>>

\* __richcmp__ of a UTCDateTime object with any object the caller owns.
Richcmp ==
    \E s \in Slots, o \in Slots, op \in Ops :
        /\ heap[s].type = "UTCDateTime"
        /\ heap[o] # Free /\ heap[o].owner = "caller"
        /\ ret' = richcmp(heap[s], heap[o], op)
        /\ input' = [op |-> "__richcmp__", slf |-> s, other |-> o, cmp |-> op]
        /\ UNCHANGED <<pc, output, heap, exc>>

\* The caller drops its reference to an object: tp_dealloc frees it.
Dealloc ==
    \E s \in Slots :
        /\ heap[s] # Free /\ heap[s].owner = "caller"
        /\ heap' = [heap EXCEPT ![s] = Free]
        /\ input' = [op |-> "dealloc", slf |-> s]
        /\ ret' = Idle
        /\ UNCHANGED <<pc, output, exc>>

Next == RunDateNew \/ RunUTCNew \/ Reduce \/ Unpickle \/ Richcmp \/ Dealloc

Spec == InitRun /\ [][Next]_vars

(***************************************************************************)
(* Any Instant in a UTCDateTime object: Instant::to_datetime and the        *)
(* accessors.                                                              *)
(***************************************************************************)
\* get_year, get_month, get_day: fields of date::ord_to_ymd on the day count.
get_year(obj) == ord_to_ymd(AsU32(DivMod(obj.instant.secs, SecsPerDay).q)).year
get_month(obj) == ord_to_ymd(AsU32(DivMod(obj.instant.secs, SecsPerDay).q)).month
get_day(obj) == ord_to_ymd(AsU32(DivMod(obj.instant.secs, SecsPerDay).q)).day

\* `secs % 86400 / 3600`
get_hour(obj) == DivMod(obj.instant.secs, SecsPerDay).r \div SecsPerHour

\* The minute taken from the second of the day: `secs % 86400 / 60`.
get_minute_of_day(obj) == DivMod(obj.instant.secs, SecsPerDay).r \div SecsPerMinute

\* `secs % 3600 / 60`
get_minute(obj) == DivMod(obj.instant.secs, SecsPerHour).r \div SecsPerMinute

\* `secs % 60`
get_secs(obj) == DivMod(obj.instant.secs, SecsPerMinute).r

\* `instant.nanos as c_ulong`
get_nanos(obj) == obj.instant.nanos

SecsSamples == 150
SecsStride == 7919 * 11
\* 2^32, 2^40 - 1, 2^63 - 1 (the largest C long) and 2^64 - 200 days.
SecsBases ==
    {U64(0),
     MulAdd(U64(MaxOrdinal), SecsPerDay, 0),
     <<0, 0, 0, 0, 1, 0, 0, 0>>,
     <<255, 255, 255, 255, 255, 0, 0, 0>>,
     <<255, 255, 255, 255, 255, 255, 255, 127>>,
     Negate(U64(200 * 86400))}
SecsInputs ==
    {WrapU64(MulAdd(b, 1, k * SecsStride)) : b \in SecsBases, k \in 0..SecsSamples}
    \cup {U64(n) : n \in {59, 60, 3599, 3600, 86399, 86400, 86401}}
    \cup {Negate(U64(1)), Negate(U64(86400)), Negate(U64(86401))}
AnyNanos == {0, 1, MaxNanos, MaxNanos + 1, 2147483647}

InitAccess ==
    /\ pc = "call"
    /\ input \in [secs : SecsInputs, nanos : AnyNanos]
    /\ output = Idle
    /\ heap = EmptyHeap
    /\ ret = Idle
    /\ exc = NoExc

\* new_unchecked puts the instant into a UTCDateTime object.
WrapInstant ==
    /\ pc = "call"
    /\ new_unchecked("UTCDateTime", input)
    /\ pc' = "built"
    /\ UNCHANGED <<input, output>>

\* Instant::to_datetime on the object's instant.
Decompose ==
    /\ pc = "built"
    /\ output' = to_datetime(heap[ret].instant)
    /\ pc' = "decomposed"
    /\ UNCHANGED <<input, heap, ret, exc>>

\* One accessor call on the object; f names the accessor, v is its value.
Access(f, v) ==
    /\ pc = "decomposed"
    /\ ret' = <<f, v>>
    /\ pc' = "done"
    /\ UNCHANGED <<input, output, heap, exc>>

GetYear == \E s \in Slots : heap[s] # Free /\ Access("year", get_year(heap[s]))
GetMonth == \E s \in Slots : heap[s] # Free /\ Access("month", get_month(heap[s]))
GetDay == \E s \in Slots : heap[s] # Free /\ Access("day", get_day(heap[s]))
GetHour == \E s \in Slots : heap[s] # Free /\ Access("hour", get_hour(heap[s]))
GetMinute == \E s \in Slots : heap[s] # Free /\ Access("minute", get_minute(heap[s]))
GetSecs == \E s \in Slots : heap[s] # Free /\ Access("second", get_secs(heap[s]))
GetNanos == \E s \in Slots : heap[s] # Free /\ Access("nanos", get_nanos(heap[s]))

NextAccess ==
    \/ WrapInstant \/ Decompose
    \/ GetYear \/ GetMonth \/ GetDay
    \/ GetHour \/ GetMinute \/ GetSecs \/ GetNanos

SpecAccess == InitAccess /\ [][NextAccess]_vars

(***************************************************************************)
(* The claims.                                                             *)
(***************************************************************************)
\* The unsigned 64-bit value x lies in lo..hi (hi below 2^24).
InRange(x, lo, hi) == IsSmall(x) /\ LimbsVal(x) >= lo /\ LimbsVal(x) <= hi

\* The length of month m of year y, as the claims word it.
MonthLength(y, m) ==
    IF m = 2
    THEN IF y % 4 = 0 /\ (y % 100 # 0 \/ y % 400 = 0) THEN 29 ELSE 28
    ELSE IF m \in {4, 6, 9, 11} THEN 30 ELSE 31

YearInRange == InRange(input.year, 1, 9999)
MonthInRange == InRange(input.month, 1, 12)
DayInRange ==
    InRange(input.day, 1, MonthLength(LimbsVal(input.year), LimbsVal(input.month)))

\* C1: check_date reports the error of the first failing check in the order
\* year, month, day: InvalidYear whenever the year is outside [1, 9999]
\* whatever month and day are, InvalidMonth whenever the year is in range and
\* the month is outside [1, 12] whatever the day is, and InvalidDay only when
\* year and month are in range and the day is outside [1, days_in_month].
C1_FirstFailingCheck ==
    pc = "done" =>
        /\ ~YearInRange => output = Err("InvalidYear")
        /\ (YearInRange /\ ~MonthInRange) => output = Err("InvalidMonth")
        /\ output = Err("InvalidDay") =>
               (YearInRange /\ MonthInRange /\ ~DayInRange)

\* C2: check_date returns Ok exactly when 1 <= year <= 9999, 1 <= month <= 12
\* and 1 <= day <= L, L being the length of the month under the Gregorian
\* leap-year rule, and the date it then returns has exactly the given year,
\* month and day.
C2_OkIffValid ==
    pc = "done" =>
        /\ output.tag = "Ok" <=> (YearInRange /\ MonthInRange /\ DayInRange)
        /\ output.tag = "Ok" =>
               /\ IsSmall(input.year) /\ IsSmall(input.month) /\ IsSmall(input.day)
               /\ output.val = [year |-> LimbsVal(input.year),
                                month |-> LimbsVal(input.month),
                                day |-> LimbsVal(input.day)]

\* C2 witness: 1900-02-29 was rejected as an invalid day (1900 is not leap).
C2_Witness ==
    /\ pc = "done"
    /\ input = [year |-> U64(1900), month |-> U64(2), day |-> U64(29)]
    /\ output = Err("InvalidDay")

\* C3: check_date never narrows an input modulo the target width: when the
\* year does not fit 16 bits, or the month or the day does not fit 8 bits, the
\* result is an error and the constructor returns no object.
C3_NoNarrowing ==
    (/\ pc = "done"
     /\ \/ ~AllZero(HighPart(input.year, U16Bytes))
        \/ ~AllZero(HighPart(input.month, U8Bytes))
        \/ ~AllZero(HighPart(input.day, U8Bytes)))
    => (output.tag = "Err" /\ ret = Null)

\* C3 witness: year 65536 + 2021 with a valid month and day was rejected.
C3_Witness ==
    /\ pc = "done"
    /\ input = [year |-> U64(65536 + 2021), month |-> U64(1), day |-> U64(1)]
    /\ output = Err("InvalidYear")
    /\ ret = Null

\* C4: for every valid date d, ord_to_ymd applied to ymd_to_ord(d) returns d's
\* year, month and day, both directly and through the instant that
\* from_datetime builds and to_datetime takes apart.
C4_OrdinalRoundTrip ==
    pc = "done" =>
        /\ ord_to_ymd(ToLimbs(output.ord, U32Bytes)) = input.date
        /\ output.back.date = input.date

\* C4 witness: 1900-03-01 came back, one ordinal after 1900-02-28.
C4_Witness ==
    /\ pc = "done"
    /\ input.date = [year |-> 1900, month |-> 3, day |-> 1]
    /\ output.ord = ymd_to_ord(1900, 2, 28) + 1
    /\ output.back.date = input.date

\* C5: for every valid civil date-time t, Instant::from_datetime(t).to_datetime()
\* equals t in all seven fields.
C5_DatetimeRoundTrip ==
    pc = "done" =>
        /\ output.back.date.year = input.date.year
        /\ output.back.date.month = input.date.month
        /\ output.back.date.day = input.date.day
        /\ output.back.time.hour = input.time.hour
        /\ output.back.time.minute = input.time.minute
        /\ output.back.time.second = input.time.second
        /\ output.back.time.nanos = input.time.nanos

\* C5 witness: 2000-02-29T13:59:30.000000001 came back unchanged.
C5_Witness ==
    /\ pc = "done"
    /\ input = [date |-> [year |-> 2000, month |-> 2, day |-> 29],
                time |-> [hour |-> 13, minute |-> 59, second |-> 30, nanos |-> 1]]
    /\ output.back = input

\* d1 is before d2 in calendar order.
DateBefore(d1, d2) ==
    \/ d1.year < d2.year
    \/ d1.year = d2.year /\ d1.month < d2.month
    \/ d1.year = d2.year /\ d1.month = d2.month /\ d1.day < d2.day

\* t1 is before t2 as a time of day.
TimeBefore(t1, t2) ==
    \/ t1.hour < t2.hour
    \/ t1.hour = t2.hour /\ t1.minute < t2.minute
    \/ t1.hour = t2.hour /\ t1.minute = t2.minute /\ t1.second < t2.second
    \/ /\ t1.hour = t2.hour /\ t1.minute = t2.minute /\ t1.second = t2.second
       /\ t1.nanos < t2.nanos

\* t1 is chronologically before t2.
CivilBefore(t1, t2) ==
    \/ DateBefore(t1.date, t2.date)
    \/ t1.date = t2.date /\ TimeBefore(t1.time, t2.time)

\* C6: to_ordinal is strictly monotonic in calendar order, and the ordinal of
\* 0001-01-01 is 0.
C6_OrdinalMonotonic ==
    pc # "call" =>
        /\ DateBefore(input.a.date, input.b.date) => output.ord_a < output.ord_b
        /\ input.a.date = [year |-> 1, month |-> 1, day |-> 1] => output.ord_a = 0

\* C6 witness: 2000-02-29 and 2000-03-01 got increasing ordinals.
C6_Witness ==
    /\ pc = "composed"
    /\ input.a.date = [year |-> 2000, month |-> 2, day |-> 29]
    /\ input.b.date = [year |-> 2000, month |-> 3, day |-> 1]
    /\ output.ord_a < output.ord_b

\* C7: for valid civil date-times t1 and t2, from_datetime(t1) < from_datetime(t2)
\* in the derived ordering of Instant exactly when t1 is chronologically before
\* t2, and the two instants are equal exactly when t1 = t2.
C7_OrderAgrees ==
    pc = "done" =>
        /\ ret["Py_LT"] <=> CivilBefore(input.a, input.b)
        /\ ret["Py_GT"] <=> CivilBefore(input.b, input.a)
        /\ ret["Py_EQ"] <=> input.a = input.b
        /\ output.a = output.b <=> input.a = input.b

\* C7 witness: the last nanosecond of 1900-02-28 compared less than the first
\* of 1900-03-01.
C7_Witness ==
    /\ pc = "done"
    /\ input.a = [date |-> [year |-> 1900, month |-> 2, day |-> 28],
                  time |-> [hour |-> 23, minute |-> 59, second |-> 59,
                            nanos |-> MaxNanos]]
    /\ input.b = [date |-> [year |-> 1900, month |-> 3, day |-> 1],
                  time |-> [hour |-> 0, minute |-> 0, second |-> 0, nanos |-> 0]]
    /\ ret["Py_LT"] /\ ~ret["Py_GE"]

\* ordinal * 86400 + hour * 3600 + minute * 60 + second, exactly.
ExactSecs(dt, ord) ==
    MulAdd(MulAdd(MulAdd(MulAdd(U64(ord), SecsPerDay, 0),
                         1, dt.time.hour * SecsPerHour),
                  1, dt.time.minute * SecsPerMinute),
           1, dt.time.second)

\* C8: for every valid civil date-time the seconds from_datetime computes are
\* below 2^64, so the u64 field holds them unwrapped, and the day count
\* secs / 86400 of the instant is below 2^32, so the cast to u32 loses nothing.
C8_NoOverflow ==
    pc # "call" =>
        /\ AllZero(HighPart(ExactSecs(input, output.ord), U64Bytes))
        /\ output.instant.secs = Cast(ExactSecs(input, output.ord), U64Bytes)
        /\ AllZero(HighPart(DivMod(output.instant.secs, SecsPerDay).q, U32Bytes))
        /\ Cast(ord_of(output.instant.secs), U64Bytes)
               = DivMod(output.instant.secs, SecsPerDay).q
        /\ ord_of(output.instant.secs) = ToLimbs(output.ord, U32Bytes)

\* C8 witness: the last second of 9999-12-31 was composed, a value of more
\* than 32 bits.
C8_Witness ==
    /\ pc = "done"
    /\ input.date = [year |-> MAX_YEAR, month |-> 12, day |-> 31]
    /\ input.time = [hour |-> 23, minute |-> 59, second |-> 59, nanos |-> MaxNanos]
    /\ ~AllZero(HighPart(output.instant.secs, U32Bytes))

\* The four time fields of the call are within their bounds.
TimeInBounds ==
    /\ 0 <= input.hour /\ input.hour <= 23
    /\ 0 <= input.minute /\ input.minute <= 59
    /\ 0 <= input.second /\ input.second <= 59
    /\ 0 <= input.nanos /\ input.nanos <= 999999999

\* The date of the call is a valid date.
DateValid == input.date.day <= MonthLength(input.date.year, input.date.month)

\* C9: the time check succeeds exactly when 0 <= hour <= 23, 0 <= minute <= 59,
\* 0 <= second <= 59 and 0 <= nanosecond <= 999999999, each field on its own;
\* on any violation the constructor reports the one failure "Invalid time"
\* (for a valid date) and builds no object.
C9_TimeValidity ==
    pc = "done" =>
        /\ DateValid => (ret # Null <=> TimeInBounds)
        /\ (DateValid /\ ~TimeInBounds) => exc = <<"ValueError", "Invalid time">>
        /\ ~TimeInBounds => (ret = Null /\ heap = EmptyHeap)
        /\ ret # Null =>
               /\ heap[ret].type = "UTCDateTime"
               /\ to_datetime(heap[ret].instant).time =
                      [hour |-> input.hour, minute |-> input.minute,
                       second |-> input.second, nanos |-> input.nanos]

\* C9 witness: minute 60 alone made the constructor fail with "Invalid time".
C9_Witness ==
    /\ pc = "done"
    /\ input.date = [year |-> 2000, month |-> 2, day |-> 29]
    /\ input.hour = 23 /\ input.minute = 60 /\ input.second = 59
    /\ input.nanos = MaxNanos
    /\ ret = Null
    /\ exc = <<"ValueError", "Invalid time">>

\* C10: __reduce__ emits exactly the pair (secs, nanos) of x's Instant, and
\* unpickle applied to that pair rebuilds an object of x's type whose Instant
\* has the same secs and nanos, which decomposes to the same civil date-time
\* and compares equal to x.
C10_PickleRoundTrip ==
    /\ input.op = "__reduce__" =>
           ret[2] = <<[neg |-> FALSE, mag |-> heap[input.slf].instant.secs],
                      [neg |-> FALSE, mag |-> U64(heap[input.slf].instant.nanos)]>>
    /\ (input.op = "unpickle" /\ input.nargs = 2 /\ ret # Null) =>
           /\ heap[ret].type = heap[input.of].type
           /\ heap[ret].instant = heap[input.of].instant
           /\ to_datetime(heap[ret].instant) = to_datetime(heap[input.of].instant)
           /\ richcmp(heap[input.of], heap[ret], "Py_EQ") = TRUE

\* The step is a call of the Date constructor or of the UTCDateTime constructor.
ConstructorStep == input'.op \in {"Date", "UTCDateTime"}

\* C11: a constructor allocates nothing beyond the value it returns: when it
\* returns an object, that object is the one allocation and the caller owns
\* it; when it returns null (validation failed) the number of live objects is
\* the same as before the call.
C11_NoAllocationBeyondReturn ==
    [][ConstructorStep =>
           IF ret' = Null
           THEN Live' = Live
           ELSE /\ Live' = Live + 1
                /\ heap'[ret'].owner = "caller"]_vars

\* secs mod 86400, told apart from the quotient by q * 86400 + r = secs, r < 86400.
IsSecondOfDay(secs, r) ==
    /\ 0 <= r /\ r < 86400
    /\ LET q == DivMod(secs, 86400).q
       IN  /\ AllZero(HighPart(MulAdd(q, 86400, r), U64Bytes))
           /\ Cast(MulAdd(q, 86400, r), U64Bytes) = secs

\* C12: for every Instant, to_datetime yields hour <= 23, minute <= 59,
\* second <= 59 with hour * 3600 + minute * 60 + second = secs mod 86400 and
\* the nanoseconds copied unchanged; and the hour, minute, second and
\* nanosecond accessors return the values of those fields of to_datetime.
C12_TimeOfDay ==
    /\ pc \in {"decomposed", "done"} =>
           /\ 0 <= output.time.hour /\ output.time.hour <= 23
           /\ 0 <= output.time.minute /\ output.time.minute <= 59
           /\ 0 <= output.time.second /\ output.time.second <= 59
           /\ IsSecondOfDay(input.secs,
                  output.time.hour * 3600 + output.time.minute * 60
                      + output.time.second)
           /\ output.time.nanos = input.nanos
    /\ (pc = "done" /\ ret[1] \in {"hour", "minute", "second", "nanos"}) =>
           ret[2] = output.time[ret[1]]

\* C12 witness: the instant 2^64 - 1 (the image of -1), outside every valid
\* date, was taken apart into 07:00:15 and its second accessor returned 15.
C12_Witness ==
    /\ pc = "done"
    /\ input = [secs |-> Negate(U64(1)), nanos |-> MaxNanos + 1]
    /\ output.time = [hour |-> 7, minute |-> 0, second |-> 15, nanos |-> MaxNanos + 1]
    /\ ret = <<"second", 15>>

====
